---- MODULE Spec2Model ----
(***************************************************************************)
(* Model of the duplicate-detection core of openharp                       *)
(* (src/src/services/deduplication.ts) and of the second lazily built      *)
(* language-model client in src/src/services/task-extractor.ts.            *)
(*                                                                         *)
(* An async function runs synchronously up to its first await, and its     *)
(* continuation runs synchronously when the awaited promise settles, so    *)
(* every exported async operation is two actions: <Op>Call (code up to the *)
(* await of client.messages.create) and <Op>Response (the continuation,    *)
(* for one settled outcome of the request).  Several invocations may be    *)
(* awaiting at the same time.                                              *)
(*                                                                         *)
(* Strings are sequences of one-character strings.  Similarity scores are  *)
(* exact rationals <<numerator, denominator>>.  JSON null in an index      *)
(* field is the value Null.                                                *)
(***************************************************************************)
EXTENDS Integers, Sequences, FiniteSets, TLC

VARIABLES
    apiKey,         \* process.env.ANTHROPIC_API_KEY is set
    anthropic,      \* per module: the module-level handle is non-null
    constructions,  \* per module: number of `new Anthropic(...)` executed
    op,             \* per invocation slot: the operation running in it
    pc,             \* per invocation slot: idle / awaiting / returned / threw
    input,          \* per invocation slot: the argument of the call
    potentialPairs, \* per invocation slot: local potentialPairs
    requests,       \* per invocation slot: client.messages.create calls issued
    respKind,       \* per invocation slot: kind of the settled response
    parsedMerges,   \* per invocation slot: parsed.merges of the settled response
    result,         \* per invocation slot: the value the promise resolved to
    oracle,         \* the behaviour of the language model over repeated passes
    handlerPc,      \* POST /api/meetings/process: the handler's position
    extracted_tasks, \* table extracted_tasks: the rows, in insertion order
    flow,           \* the deduplication layers the handler has run, in order
    clickup_task_cache, \* table clickup_task_cache: the rows, in insertion order
    cacheRun,       \* per run of cacheClickUpTasks: position, user, snapshot
    cacheLog,       \* the statements clickup_task_cache has executed, in order
    processedFile,  \* .state/processed-meetings.json: the meeting ids in it
    serverRun,      \* per processMeeting call: position, meeting, loaded set
    plannerCreated  \* per meeting: completed createTasksInPlanner calls

\* the variables of the callers: process handler, cache table, webhook server
outerVars == <<oracle, handlerPc, extracted_tasks, flow, clickup_task_cache,
               cacheRun, cacheLog, processedFile, serverRun, plannerCreated>>

vars == <<apiKey, anthropic, constructions, op, pc, input, potentialPairs,
          requests, respKind, parsedMerges, result, outerVars>>

----------------------------------------------------------------------------
(* Bounds of the model                                                     *)

MaxTasks == 3       \* longest batch (and longest flattened list)
MaxDups == 2        \* longest "duplicates" list in an oracle response
MaxMerges == 1      \* longest "merges" list in an oracle response
MaxCount == 3       \* cap of the event counters

Null == -1          \* JSON null in duplicateOfIndex (number | null)

Min(a, b) == IF a < b THEN a ELSE b
Max(a, b) == IF a > b THEN a ELSE b

----------------------------------------------------------------------------
(* Strings                                                                 *)

\* String.prototype.toLowerCase on the model's alphabet
LowerChar(c) ==
    CASE c = "S" -> "s"
      [] c = "P" -> "p"
      [] c = "U" -> "u"
      [] OTHER -> c

toLowerCase(s) == [i \in 1..Len(s) |-> LowerChar(s[i])]

RECURSIVE trimStart(_)
trimStart(s) ==
    IF s # <<>> /\ Head(s) = " " THEN trimStart(Tail(s)) ELSE s

RECURSIVE trimEnd(_)
trimEnd(s) ==
    IF s # <<>> /\ s[Len(s)] = " " THEN trimEnd(SubSeq(s, 1, Len(s) - 1)) ELSE s

\* String.prototype.trim
trim(s) == trimEnd(trimStart(s))

\* String.prototype.includes: sub occurs in s as a contiguous substring
includes(s, sub) ==
    \E k \in 0..(Len(s) - Len(sub)) : SubSeq(s, k + 1, k + Len(sub)) = sub

----------------------------------------------------------------------------
(* getLevenshteinDistance: the rolling one-row computation of the source   *)

\* the inner loop without the substitution step: insertions and deletions only
RECURSIVE LevInnerNoSubstitution(_, _, _, _, _, _)
LevInnerNoSubstitution(s1, s2, i, j, costs, lastValue) ==
    IF j \notin DOMAIN costs
    THEN [costs EXCEPT ![Len(s2)] = lastValue]
    ELSE LET diag == costs[j - 1]
             newValue == IF s1[i] # s2[j]
                         THEN Min(lastValue, costs[j]) + 1
                         ELSE diag
         IN LevInnerNoSubstitution(s1, s2, i, j + 1,
                     [costs EXCEPT ![j - 1] = lastValue], newValue)

RECURSIVE LevInner(_, _, _, _, _, _)
LevInner(s1, s2, i, j, costs, lastValue) ==
    IF j \notin DOMAIN costs      \* j > s2.length: costs has s2.length + 1 cells
    THEN [costs EXCEPT ![Len(s2)] = lastValue]
    ELSE LET diag == costs[j - 1]
             newValue == IF s1[i] # s2[j]
                         THEN Min(Min(diag, lastValue), costs[j]) + 1
                         ELSE diag
         IN LevInner(s1, s2, i, j + 1,
                     [costs EXCEPT ![j - 1] = lastValue], newValue)

RECURSIVE LevOuter(_, _, _, _)
LevOuter(s1, s2, i, costs) ==
    IF i > Len(s1)
    THEN costs
    ELSE LevOuter(s1, s2, i + 1, LevInner(s1, s2, i, 1, costs, i))

getLevenshteinDistance(s1, s2) ==
    LevOuter(s1, s2, 1, [j \in 0..Len(s2) |-> j])[Len(s2)]

\* a / b > n / d for positive b and d
RatGT(r, n, d) == r[1] * d > n * r[2]

\* calculateSimilarity that always takes str1 for the shorter string
calculateSimilarityOrdered(str1, str2) ==
    LET s1 == trim(toLowerCase(str1))
        s2 == trim(toLowerCase(str2))
        lo == Min(Len(s1), Len(s2))
        hi == Max(Len(s1), Len(s2))
    IN IF s1 = s2 THEN <<1, 1>>
       ELSE IF includes(s1, s2) /\ RatGT(<<lo, hi>>, 7, 10)
            THEN <<lo, hi>>
       ELSE IF Len(s2) = 0 THEN <<0, 1>>
       ELSE <<Max(Len(s2) - getLevenshteinDistance(s1, s2), 0), Len(s2)>>

\* calculateSimilarity without the normalisation of its arguments
calculateSimilarityRaw(str1, str2) ==
    LET lo == Min(Len(str1), Len(str2))
        hi == Max(Len(str1), Len(str2))
        longer == IF Len(str1) > Len(str2) THEN str1 ELSE str2
        shorter == IF Len(str1) > Len(str2) THEN str2 ELSE str1
    IN IF str1 = str2 THEN <<1, 1>>
       ELSE IF (includes(str1, str2) \/ includes(str2, str1)) /\ RatGT(<<lo, hi>>, 7, 10)
            THEN <<lo, hi>>
       ELSE IF Len(longer) = 0 THEN <<1, 1>>
       ELSE <<Len(longer) - getLevenshteinDistance(shorter, longer), Len(longer)>>

\* calculateSimilarity taking a shared first character for containment
calculateSimilarityPrefix(str1, str2) ==
    LET s1 == trim(toLowerCase(str1))
        s2 == trim(toLowerCase(str2))
        lo == Min(Len(s1), Len(s2))
        hi == Max(Len(s1), Len(s2))
        longer == IF Len(s1) > Len(s2) THEN s1 ELSE s2
        shorter == IF Len(s1) > Len(s2) THEN s2 ELSE s1
    IN IF s1 = s2 THEN <<1, 1>>
       ELSE IF lo > 0 /\ s1[1] = s2[1] /\ RatGT(<<lo, hi>>, 7, 10)
            THEN <<lo, hi>>
       ELSE IF Len(longer) = 0 THEN <<1, 1>>
       ELSE <<Len(longer) - getLevenshteinDistance(shorter, longer), Len(longer)>>

calculateSimilarity(str1, str2) ==
    LET s1 == trim(toLowerCase(str1))
        s2 == trim(toLowerCase(str2))
        lo == Min(Len(s1), Len(s2))
        hi == Max(Len(s1), Len(s2))
        longer == IF Len(s1) > Len(s2) THEN s1 ELSE s2
        shorter == IF Len(s1) > Len(s2) THEN s2 ELSE s1
    IN IF s1 = s2 THEN <<1, 1>>
       ELSE IF (includes(s1, s2) \/ includes(s2, s1)) /\ RatGT(<<lo, hi>>, 7, 10)
            THEN <<lo, hi>>
       ELSE IF Len(longer) = 0 THEN <<1, 1>>
       ELSE <<Len(longer) - getLevenshteinDistance(shorter, longer), Len(longer)>>

----------------------------------------------------------------------------
(* Tasks                                                                   *)

NullDate == "null"      \* dueDate: string | null

Priorities == {"urgent", "high", "normal", "low"}

TitleSend == <<"S", "e", "n", "d">>
TitleSendLower == <<" ", "s", "e", "n", "d">>
TitlePlan == <<"P", "l", "a", "n">>

\* The task at batch position i (1-based) with a "send" or a "plan" title.
\* Every position has its own description, priority and due date, so a task
\* of a batch is identified by its value; the "send" title alternates between
\* two spellings that are identical after normalisation.
Descriptions == <<"d1", "d2", "d3", "d4", "d5", "d6">>
PriorityAt == <<"high", "normal", "low", "urgent", "high", "normal">>
DueDateAt == <<"2025-01-01", NullDate, NullDate, "2025-02-02", NullDate, NullDate>>

TaskAt(i, kind) ==
    [title |-> IF kind = "plan" THEN TitlePlan
               ELSE IF i % 2 = 1 THEN TitleSend ELSE TitleSendLower,
     description |-> Descriptions[i],
     priority |-> PriorityAt[i],
     dueDate |-> DueDateAt[i]]

TitleKinds == {"send", "plan"}

SeqsUpTo(S, n) == UNION {[1..k -> S] : k \in 0..n}

Batches ==
    {[i \in 1..Len(ks) |-> TaskAt(i, ks[i])] : ks \in SeqsUpTo(TitleKinds, MaxTasks)}

----------------------------------------------------------------------------
(* The module-level client handles                                         *)

Modules == {"deduplication", "task-extractor"}

\* getAnthropicClient without its `if (!anthropic)` guard
NeedsConstructionAlways(m) == TRUE

\* `if (!anthropic)`: the handle of module m has not been built yet
NeedsConstruction(m) == ~anthropic[m]

\* getAnthropicClient throws: no handle yet and no API key
ClientThrows(m) == NeedsConstruction(m) /\ ~apiKey

\* getAnthropicClient returning normally: builds the handle when needed
GetClient(m) ==
    /\ ~ClientThrows(m)
    /\ anthropic' = [anthropic EXCEPT ![m] = TRUE]
    /\ constructions' =
         IF NeedsConstruction(m)
         THEN [constructions EXCEPT ![m] = Min(@ + 1, MaxCount)]
         ELSE constructions

NoClient == UNCHANGED <<anthropic, constructions>>

----------------------------------------------------------------------------
(* findPotentialDuplicates: index pairs i < j (0-based) in loop order      *)

PairThresholdNum == 6
PairThresholdDen == 10

\* findPotentialDuplicates admitting `similarity >= 0.6`
RECURSIVE PairLoopInclusive(_, _, _, _)
PairLoopInclusive(tasks, i, j, acc) ==
    IF i >= Len(tasks) THEN acc
    ELSE IF j >= Len(tasks) THEN PairLoopInclusive(tasks, i + 1, i + 2, acc)
    ELSE PairLoopInclusive(tasks, i, j + 1,
           IF ~RatGT(<<PairThresholdNum, PairThresholdDen>>,
                     calculateSimilarity(tasks[i + 1].title, tasks[j + 1].title)[1],
                     calculateSimilarity(tasks[i + 1].title, tasks[j + 1].title)[2])
           THEN Append(acc, <<i, j>>)
           ELSE acc)

RECURSIVE PairLoop(_, _, _, _)
PairLoop(tasks, i, j, acc) ==
    IF i >= Len(tasks) THEN acc
    ELSE IF j >= Len(tasks) THEN PairLoop(tasks, i + 1, i + 2, acc)
    ELSE PairLoop(tasks, i, j + 1,
           IF RatGT(calculateSimilarity(tasks[i + 1].title, tasks[j + 1].title),
                    PairThresholdNum, PairThresholdDen)
           THEN Append(acc, <<i, j>>)
           ELSE acc)

findPotentialDuplicates(tasks) == PairLoop(tasks, 0, 1, <<>>)

----------------------------------------------------------------------------
(* deduplicateTasks                                                        *)

NoResult == [duplicates |-> <<>>, uniqueTasks |-> <<>>, totalDuplicates |-> 0]

\* the three "treat as no duplicates" returns and the catch block
AllUnique(tasks) ==
    [duplicates |-> <<>>, uniqueTasks |-> tasks, totalDuplicates |-> 0]

DefaultReason == "Identified as duplicate"

\* parsed.duplicates.map(dup => ({...})): `dup.reason || default`
ToDuplicateMatch(dup) ==
    [taskIndex |-> dup.taskIndex,
     duplicateOfIndex |-> dup.duplicateOfIndex,
     reason |-> IF dup.reason = "" THEN DefaultReason ELSE dup.reason]

\* the set of the canonical indices instead of the duplicates' own
DuplicateIndicesOfCanonical(duplicates) ==
    {duplicates[k].duplicateOfIndex : k \in 1..Len(duplicates)}

\* new Set(duplicates.map(d => d.taskIndex))
DuplicateIndices(duplicates) ==
    {duplicates[k].taskIndex : k \in 1..Len(duplicates)}

RECURSIVE FilterUnique(_, _, _)
FilterUnique(tasks, i, dupIdx) ==
    IF i >= Len(tasks) THEN <<>>
    ELSE IF i \in dupIdx THEN FilterUnique(tasks, i + 1, dupIdx)
    ELSE <<[title |-> tasks[i + 1].title,
            description |-> tasks[i + 1].description,
            priority |-> tasks[i + 1].priority,
            dueDate |-> tasks[i + 1].dueDate]>>
         \o FilterUnique(tasks, i + 1, dupIdx)

\* lines 214-237: the result built from a well-formed duplicates list
ApplyDuplicates(tasks, dups) ==
    LET duplicates == [k \in 1..Len(dups) |-> ToDuplicateMatch(dups[k])]
    IN [duplicates |-> duplicates,
        uniqueTasks |-> FilterUnique(tasks, 0, DuplicateIndices(duplicates)),
        totalDuplicates |-> Len(duplicates)]

\* Kinds of settled request:
\*   reject    client.messages.create rejected (network, auth, rate limit)
\*   nontext   content[0] is missing or not a text block
\*   nojson    the text has no {...} span
\*   badjson   JSON.parse throws on the span
\*   nolist    parsed.duplicates is absent or not an array
\*   nullitem  the array holds null / undefined (property read throws)
\*   list      the array holds objects: resp.dups
ThrowsInTry(resp) == resp.kind \in {"reject", "nontext", "badjson", "nullitem"}

\* the try block of deduplicateTasks, lines 178-237, without its catch
DedupTry(tasks, resp) ==
    IF ThrowsInTry(resp) THEN [threw |-> TRUE, value |-> NoResult]
    ELSE IF resp.kind \in {"nojson", "nolist"}
         THEN [threw |-> FALSE, value |-> AllUnique(tasks)]
    ELSE [threw |-> FALSE, value |-> ApplyDuplicates(tasks, resp.dups)]

\* deduplicateTasks with the catch block removed
DedupNoCatch(tasks, resp) == DedupTry(tasks, resp)

\* try { ... } catch (error) { return all unique }, lines 177-246
DedupContinuation(tasks, resp) ==
    LET t == DedupTry(tasks, resp)
    IN IF t.threw THEN [threw |-> FALSE, value |-> AllUnique(tasks)] ELSE t

\* deduplicateTasks up to `await client.messages.create(...)`
DedupCall(p, tasks) ==
    /\ pc[p] = "idle"
    /\ op' = [op EXCEPT ![p] = "dedup"]
    /\ input' = [input EXCEPT ![p] = tasks]
    /\ respKind' = [respKind EXCEPT ![p] = "none"]
    /\ UNCHANGED <<apiKey, parsedMerges>>
    /\ IF Len(tasks) = 0
       THEN /\ NoClient
            /\ pc' = [pc EXCEPT ![p] = "returned"]
            /\ result' = [result EXCEPT ![p] = AllUnique(<<>>)]
            /\ potentialPairs' = [potentialPairs EXCEPT ![p] = <<>>]
            /\ requests' = [requests EXCEPT ![p] = 0]
       ELSE IF ClientThrows("deduplication")
       THEN /\ NoClient
            /\ pc' = [pc EXCEPT ![p] = "threw"]
            /\ result' = [result EXCEPT ![p] = NoResult]
            /\ potentialPairs' = [potentialPairs EXCEPT ![p] = <<>>]
            /\ requests' = [requests EXCEPT ![p] = 0]
       ELSE /\ GetClient("deduplication")
            /\ potentialPairs' =
                 [potentialPairs EXCEPT ![p] = findPotentialDuplicates(tasks)]
            /\ IF potentialPairs'[p] = <<>>
               THEN /\ pc' = [pc EXCEPT ![p] = "returned"]
                    /\ result' = [result EXCEPT ![p] = AllUnique(tasks)]
                    /\ requests' = [requests EXCEPT ![p] = 0]
               ELSE /\ pc' = [pc EXCEPT ![p] = "awaiting"]
                    /\ result' = [result EXCEPT ![p] = NoResult]
                    /\ requests' = [requests EXCEPT ![p] = 1]

\* deduplicateTasks re-issuing the request when it is rejected
DedupResponseRetrying(p, resp) ==
    /\ pc[p] = "awaiting"
    /\ op[p] = "dedup"
    /\ IF resp.kind = "reject"
       THEN /\ requests' = [requests EXCEPT ![p] = Min(@ + 1, MaxCount)]
            /\ UNCHANGED <<pc, result>>
       ELSE LET out == DedupContinuation(input[p], resp)
            IN /\ pc' = [pc EXCEPT ![p] = IF out.threw THEN "threw" ELSE "returned"]
               /\ result' = [result EXCEPT ![p] = out.value]
               /\ UNCHANGED requests
    /\ respKind' = [respKind EXCEPT ![p] = resp.kind]
    /\ UNCHANGED <<apiKey, anthropic, constructions, parsedMerges, op, input, potentialPairs>>

\* the continuation of deduplicateTasks once the request has settled
DedupResponse(p, resp) ==
    /\ pc[p] = "awaiting"
    /\ op[p] = "dedup"
    /\ LET out == DedupContinuation(input[p], resp)
       IN /\ pc' = [pc EXCEPT ![p] = IF out.threw THEN "threw" ELSE "returned"]
          /\ result' = [result EXCEPT ![p] = out.value]
    /\ respKind' = [respKind EXCEPT ![p] = resp.kind]
    /\ UNCHANGED <<apiKey, anthropic, constructions, parsedMerges, op, input,
                   potentialPairs, requests>>

----------------------------------------------------------------------------
(* mergeSimilarTasks                                                       *)

\* the flattening with the meetings taken last to first
RECURSIVE FlattenReversed(_)
FlattenReversed(tasksByMeeting) ==
    IF tasksByMeeting = <<>> THEN <<>>
    ELSE FlattenReversed(Tail(tasksByMeeting)) \o Head(tasksByMeeting).tasks

RECURSIVE Flatten(_)
\* lines 294-305: all tasks of all meetings, meeting order then task order
Flatten(tasksByMeeting) ==
    IF tasksByMeeting = <<>> THEN <<>>
    ELSE Head(tasksByMeeting).tasks \o Flatten(Tail(tasksByMeeting))

\* allTasksWithSource.map(t => ({title, description, priority, dueDate}))
Unmerged(all) == [tasks |-> FilterUnique(all, 0, {})]

NoTasks == [tasks |-> <<>>]

Undefined == "undefined"    \* a property the oracle's object does not have

NoMergedTask == [title |-> <<>>, description |-> Undefined,
                 priority |-> Undefined, dueDate |-> Undefined]

\* `merged` without the loop over merge.mergeIndices
RECURSIVE MergedSetPrimaryOnly(_)
MergedSetPrimaryOnly(merges) ==
    IF merges = <<>> THEN {}
    ELSE (IF Head(merges).mergedTask # NoMergedTask
          THEN {Head(merges).primaryIndex} ELSE {})
         \cup MergedSetPrimaryOnly(Tail(merges))

\* indices added to `merged` by the groups that carry a mergedTask
RECURSIVE MergedSet(_)
MergedSet(merges) ==
    IF merges = <<>> THEN {}
    ELSE LET merge == Head(merges)
         IN (IF merge.mergedTask # NoMergedTask
             THEN {merge.primaryIndex}
                  \cup {merge.mergeIndices[k] : k \in 1..Len(merge.mergeIndices)}
             ELSE {})
            \cup MergedSet(Tail(merges))

\* result.push(merge.mergedTask) for the groups that carry one, in order
RECURSIVE MergedTasks(_)
MergedTasks(merges) ==
    IF merges = <<>> THEN <<>>
    ELSE (IF Head(merges).mergedTask # NoMergedTask
          THEN <<Head(merges).mergedTask>> ELSE <<>>)
         \o MergedTasks(Tail(merges))

\* lines 396-423: merged tasks first, then every task that was not merged
ApplyMerges(all, merges) ==
    [tasks |-> MergedTasks(merges) \o FilterUnique(all, 0, MergedSet(merges))]

\* Kinds of settled request, as for deduplicateTasks, with
\*   nomerges  parsed.merges is absent or falsy (`|| []`)
\*   notlist   parsed.merges is truthy and not iterable (for-of throws)
\*   nullitem  the array holds null / undefined (property read throws)
\*   list      the array holds objects: resp.merges
MergeThrowsInTry(resp) ==
    resp.kind \in {"reject", "badjson", "notlist", "nullitem"}

\* the try block of mergeSimilarTasks, lines 364-423, without its catch
MergeTry(all, resp) ==
    IF MergeThrowsInTry(resp) THEN [threw |-> TRUE, value |-> NoTasks]
    ELSE IF resp.kind \in {"nontext", "nojson"}
         THEN [threw |-> FALSE, value |-> Unmerged(all)]
    ELSE IF resp.kind = "nomerges"
         THEN [threw |-> FALSE, value |-> ApplyMerges(all, <<>>)]
    ELSE [threw |-> FALSE, value |-> ApplyMerges(all, resp.merges)]

\* try { ... } catch (error) { return all tasks }, lines 363-433
MergeContinuation(all, resp) ==
    LET t == MergeTry(all, resp)
    IN IF t.threw THEN [threw |-> FALSE, value |-> Unmerged(all)] ELSE t

\* mergeSimilarTasks up to `await client.messages.create(...)`
MergeCall(p, tasksByMeeting) ==
    LET all == Flatten(tasksByMeeting)
        pairs == findPotentialDuplicates(all)
        settle(state, value) ==
            /\ pc' = [pc EXCEPT ![p] = state]
            /\ result' = [result EXCEPT ![p] = value]
            /\ requests' = [requests EXCEPT ![p] = 0]
    IN /\ pc[p] = "idle"
       /\ op' = [op EXCEPT ![p] = "merge"]
       /\ input' = [input EXCEPT ![p] = all]
       /\ respKind' = [respKind EXCEPT ![p] = "none"]
       /\ UNCHANGED <<apiKey, parsedMerges>>
       /\ IF Len(tasksByMeeting) = 0
          THEN /\ NoClient /\ settle("returned", NoTasks)
               /\ potentialPairs' = [potentialPairs EXCEPT ![p] = <<>>]
          ELSE IF Len(all) <= 1
          THEN /\ NoClient /\ settle("returned", Unmerged(all))
               /\ potentialPairs' = [potentialPairs EXCEPT ![p] = <<>>]
          ELSE /\ potentialPairs' = [potentialPairs EXCEPT ![p] = pairs]
               /\ IF pairs = <<>>
                  THEN NoClient /\ settle("returned", Unmerged(all))
                  ELSE IF ClientThrows("deduplication")
                  THEN NoClient /\ settle("threw", NoTasks)
                  ELSE /\ GetClient("deduplication")
                       /\ pc' = [pc EXCEPT ![p] = "awaiting"]
                       /\ result' = [result EXCEPT ![p] = NoTasks]
                       /\ requests' = [requests EXCEPT ![p] = 1]

\* the continuation of mergeSimilarTasks once the request has settled
MergeResponse(p, resp) ==
    /\ pc[p] = "awaiting"
    /\ op[p] = "merge"
    /\ LET out == MergeContinuation(input[p], resp)
       IN /\ pc' = [pc EXCEPT ![p] = IF out.threw THEN "threw" ELSE "returned"]
          /\ result' = [result EXCEPT ![p] = out.value]
    /\ respKind' = [respKind EXCEPT ![p] = resp.kind]
    /\ parsedMerges' = [parsedMerges EXCEPT ![p] = resp.merges]
    /\ UNCHANGED <<apiKey, anthropic, constructions, op, input,
                   potentialPairs, requests>>

----------------------------------------------------------------------------
(* extractTasks (task-extractor.ts): the other module with its own handle  *)

UntitledTitle == <<"U", "n", "t", "i", "t", "l", "e", "d">>

\* parsed.tasks.map(task => ({...})), lines 71-78
ValidateTask(task) ==
    [title |-> IF task.title = <<>> THEN UntitledTitle ELSE task.title,
     description |-> IF task.description = Undefined THEN "" ELSE task.description,
     priority |-> IF task.priority \in Priorities THEN task.priority ELSE "normal",
     dueDate |-> IF task.dueDate \in {Undefined, ""} THEN NullDate ELSE task.dueDate]

\* the try block rethrows every failure as 'Failed to extract tasks: ...'
ExtractContinuation(resp) ==
    IF resp.kind = "list"
    THEN [threw |-> FALSE,
          value |-> [tasks |-> [k \in 1..Len(resp.tasks) |-> ValidateTask(resp.tasks[k])]]]
    ELSE [threw |-> TRUE, value |-> NoTasks]

\* extractTasks up to `await client.messages.create(...)`
ExtractCall(p) ==
    /\ pc[p] = "idle"
    /\ op' = [op EXCEPT ![p] = "extract"]
    /\ input' = [input EXCEPT ![p] = <<>>]
    /\ potentialPairs' = [potentialPairs EXCEPT ![p] = <<>>]
    /\ respKind' = [respKind EXCEPT ![p] = "none"]
    /\ result' = [result EXCEPT ![p] = NoTasks]
    /\ UNCHANGED <<apiKey, parsedMerges>>
    /\ IF ClientThrows("task-extractor")
       THEN /\ NoClient
            /\ pc' = [pc EXCEPT ![p] = "threw"]
            /\ requests' = [requests EXCEPT ![p] = 0]
       ELSE /\ GetClient("task-extractor")
            /\ pc' = [pc EXCEPT ![p] = "awaiting"]
            /\ requests' = [requests EXCEPT ![p] = 1]

\* the continuation of extractTasks once the request has settled
ExtractResponse(p, resp) ==
    /\ pc[p] = "awaiting"
    /\ op[p] = "extract"
    /\ LET out == ExtractContinuation(resp)
       IN /\ pc' = [pc EXCEPT ![p] = IF out.threw THEN "threw" ELSE "returned"]
          /\ result' = [result EXCEPT ![p] = out.value]
    /\ respKind' = [respKind EXCEPT ![p] = resp.kind]
    /\ UNCHANGED <<apiKey, anthropic, constructions, parsedMerges, op, input,
                   potentialPairs, requests>>

\* the caller takes the settled promise; the slot is free again
Finish(p) ==
    /\ pc[p] \in {"returned", "threw"}
    /\ pc' = [pc EXCEPT ![p] = "idle"]
    /\ op' = [op EXCEPT ![p] = "none"]
    /\ input' = [input EXCEPT ![p] = <<>>]
    /\ potentialPairs' = [potentialPairs EXCEPT ![p] = <<>>]
    /\ requests' = [requests EXCEPT ![p] = 0]
    /\ respKind' = [respKind EXCEPT ![p] = "none"]
    /\ result' = [result EXCEPT ![p] = NoResult]
    /\ parsedMerges' = [parsedMerges EXCEPT ![p] = <<>>]
    /\ UNCHANGED <<apiKey, anthropic, constructions>>

----------------------------------------------------------------------------
(* Oracle responses the model draws from                                   *)

FailureKinds == {"reject", "nontext", "nojson", "badjson", "nolist", "nullitem"}

\* an index field of an oracle entry: any batch index, or one past the end
OracleIndex(n) == 0..n

DupEntries(n) ==
    [taskIndex : OracleIndex(n),
     duplicateOfIndex : {Null} \cup OracleIndex(n),
     reason : {"same action"}]

DedupResponses(n) ==
    {[kind |-> k, dups |-> <<>>] : k \in FailureKinds}
    \cup {[kind |-> "list", dups |-> d] : d \in SeqsUpTo(DupEntries(n), MaxDups)}

\* tasksByMeeting: no meeting, one meeting, or a batch split over two
Meeting(title, tasks) == [meetingTitle |-> title, tasks |-> tasks]

MergeInputs ==
    {<<>>}
    \cup {<<Meeting("standup", b)>> : b \in Batches}
    \cup UNION {{<<Meeting("standup", SubSeq(b, 1, k)),
                   Meeting("retro", SubSeq(b, k + 1, Len(b)))>> :
                     k \in 0..Len(b)} : b \in Batches}

ConsolidatedTask == [title |-> TitleSend, description |-> "merged",
                     priority |-> "high", dueDate |-> Undefined]

MergeGroups(n) ==
    [primaryIndex : OracleIndex(n),
     mergeIndices : SeqsUpTo(OracleIndex(n), 1),
     mergedTask : {NoMergedTask, ConsolidatedTask}]

MergeFailureKinds ==
    {"reject", "nontext", "nojson", "badjson", "nomerges", "notlist", "nullitem"}

MergeResponses(n) ==
    {[kind |-> k, merges |-> <<>>] : k \in MergeFailureKinds}
    \cup {[kind |-> "list", merges |-> g] : g \in SeqsUpTo(MergeGroups(n), MaxMerges)}

----------------------------------------------------------------------------
NumSlots == 2

Slots == 1..NumSlots

\* the meetings the webhook server hears of
MeetingIds == {"mtg1", "mtg2"}

\* the users whose tracker tasks are cached
UserIds == {"user1", "user2"}

NoCacheRun == [pc |-> "idle", userId |-> "none", tasks |-> <<>>]

NoServerRun == [pc |-> "idle", meetingId |-> "none", processedMeetings |-> {}]

\* nothing has called the handler, the cache or the webhook server yet
InitOuter ==
    /\ oracle = "nothing"
    /\ handlerPc = "idle"
    /\ extracted_tasks = <<>>
    /\ flow = <<>>
    /\ clickup_task_cache = <<>>
    /\ cacheRun = [r \in Slots |-> NoCacheRun]
    /\ cacheLog = <<>>
    /\ processedFile = {}
    /\ serverRun = [r \in Slots |-> NoServerRun]
    /\ plannerCreated = [m \in MeetingIds |-> 0]

InitDedup ==
    /\ apiKey \in BOOLEAN
    /\ anthropic = [m \in Modules |-> FALSE]
    /\ constructions = [m \in Modules |-> 0]
    /\ op = [p \in Slots |-> "none"]
    /\ pc = [p \in Slots |-> "idle"]
    /\ input = [p \in Slots |-> <<>>]
    /\ potentialPairs = [p \in Slots |-> <<>>]
    /\ requests = [p \in Slots |-> 0]
    /\ respKind = [p \in Slots |-> "none"]
    /\ result = [p \in Slots |-> NoResult]
    /\ parsedMerges = [p \in Slots |-> <<>>]

Init == InitDedup /\ InitOuter

\* one invocation at a time, full input and response domains
Next ==
    /\ UNCHANGED outerVars
    /\ \/ \E tasks \in Batches : DedupCall(1, tasks)
       \/ /\ pc[1] = "awaiting" /\ op[1] = "dedup"
          /\ \E resp \in DedupResponses(Len(input[1])) : DedupResponse(1, resp)
       \/ \E tasksByMeeting \in MergeInputs : MergeCall(1, tasksByMeeting)
       \/ /\ pc[1] = "awaiting" /\ op[1] = "merge"
          /\ \E resp \in MergeResponses(Len(input[1])) : MergeResponse(1, resp)
       \/ Finish(1)

Spec == Init /\ [][Next]_vars

----------------------------------------------------------------------------
(* Concurrent invocations: every slot may hold an invocation, so calls and *)
(* continuations of different invocations interleave at the awaits.  The   *)
(* inputs are a batch with a candidate pair, one without, and the empty    *)
(* one; the responses are one failure and one well-formed answer.          *)

ClientBatches ==
    {<<>>,
     <<TaskAt(1, "send"), TaskAt(2, "send")>>,
     <<TaskAt(1, "send"), TaskAt(2, "plan")>>}

ClientDedupResponses ==
    {[kind |-> "reject", dups |-> <<>>],
     [kind |-> "list",
      dups |-> <<[taskIndex |-> 1, duplicateOfIndex |-> 0, reason |-> ""]>>]}

ClientMergeResponses ==
    {[kind |-> "reject", merges |-> <<>>],
     [kind |-> "list",
      merges |-> <<[primaryIndex |-> 0, mergeIndices |-> <<1>>,
                    mergedTask |-> ConsolidatedTask]>>]}

RawTask == [title |-> <<>>, description |-> Undefined,
            priority |-> "medium", dueDate |-> Undefined]

ClientExtractResponses ==
    {[kind |-> "reject", tasks |-> <<>>],
     [kind |-> "list", tasks |-> <<RawTask>>]}

NextClient ==
    /\ UNCHANGED outerVars
    /\ \E p \in Slots :
           \/ \E tasks \in ClientBatches : DedupCall(p, tasks)
           \/ \E resp \in ClientDedupResponses : DedupResponse(p, resp)
           \/ \E tasks \in ClientBatches : MergeCall(p, <<Meeting("standup", tasks)>>)
           \/ \E resp \in ClientMergeResponses : MergeResponse(p, resp)
           \/ ExtractCall(p)
           \/ \E resp \in ClientExtractResponses : ExtractResponse(p, resp)
           \/ Finish(p)

SpecClient == Init /\ [][NextClient]_vars

----------------------------------------------------------------------------
(* The pure functions on their own: calculateSimilarity on a pair of       *)
(* strings and findPotentialDuplicates on a batch of titled tasks.  Their  *)
(* code has no await, so each is one action that returns at once.          *)

MaxStrLen == 3      \* longest string given to calculateSimilarity

Alphabet == {"s", "S", "a", " "}

Strings == SeqsUpTo(Alphabet, MaxStrLen)

TitleDemo == <<"S", "c", "h", "e", "d", "u", "l", "e", " ", "d", "e", "m", "o", " ", "c", "a", "l", "l">>
TitleADemo == <<"S", "c", "h", "e", "d", "u", "l", "e", " ", "a", " ", "d", "e", "m", "o", " ", "c", "a", "l", "l">>
TitleUnrelated == <<"U", "n", "r", "e", "l", "a", "t", "e", "d", " ", "t", "o", "p", "i", "c", " ", "e", "n", "t", "i", "r", "e", "l", "y">>
TitleAbcde == <<"a", "b", "c", "d", "e">>
TitleAbcxy == <<"a", "b", "c", "x", "y">>
TitleAbcdx == <<" ", "a", "b", "c", "d", "x">>

TitlePool == {TitleDemo, TitleADemo, TitleUnrelated, TitleAbcde, TitleAbcxy, TitleAbcdx}

TitleSends == <<"S", "e", "n", "d", "s">>
TitleSent == <<"S", "e", "n", "t">>

\* the arguments of calculateSimilarity: every short string and the titles
SimilarityInputs == Strings \cup TitlePool \cup {TitleSend, TitleSends, TitleSent}

\* the task at batch position i (1-based) with the given title
TitledTask(i, title) ==
    [title |-> title, description |-> Descriptions[i],
     priority |-> PriorityAt[i], dueDate |-> DueDateAt[i]]

SpecExampleBatch ==
    <<TitledTask(1, TitleDemo), TitledTask(2, TitleADemo), TitledTask(3, TitleUnrelated)>>

\* every batch of the short titles, and the batch of the three long ones
TitledBatches ==
    {[i \in 1..Len(ts) |-> TitledTask(i, ts[i])] :
        ts \in SeqsUpTo({TitleAbcde, TitleAbcxy, TitleAbcdx, TitleSend}, MaxTasks)}
    \cup {SpecExampleBatch}

SimResult(r) == [similarity |-> r]

\* one call of calculateSimilarity(str1, str2)
SimilarityCall(p, str1, str2) ==
    /\ pc[p] = "idle"
    /\ op' = [op EXCEPT ![p] = "similarity"]
    /\ pc' = [pc EXCEPT ![p] = "returned"]
    /\ input' = [input EXCEPT ![p] = <<str1, str2>>]
    /\ result' = [result EXCEPT ![p] = SimResult(calculateSimilarity(str1, str2))]
    /\ UNCHANGED <<apiKey, anthropic, constructions, parsedMerges, potentialPairs,
                   requests, respKind>>

\* one call of findPotentialDuplicates(tasks)
PairsCall(p, tasks) ==
    /\ pc[p] = "idle"
    /\ op' = [op EXCEPT ![p] = "pairs"]
    /\ pc' = [pc EXCEPT ![p] = "returned"]
    /\ input' = [input EXCEPT ![p] = tasks]
    /\ potentialPairs' = [potentialPairs EXCEPT ![p] = findPotentialDuplicates(tasks)]
    /\ result' = [result EXCEPT ![p] = NoResult]
    /\ UNCHANGED <<apiKey, anthropic, constructions, parsedMerges, requests, respKind>>

\* the arguments of getLevenshteinDistance: every short string of two
\* letters and a few longer words
LevenshteinInputs ==
    SeqsUpTo({"a", "b"}, MaxStrLen)
    \cup {TitleAbcde, TitleAbcxy, TitleSend, TitleSends, TitleSent}

LevResult(d) == [distance |-> d]

\* one call of getLevenshteinDistance(s1, s2)
LevenshteinCall(p, s1, s2) ==
    /\ pc[p] = "idle"
    /\ op' = [op EXCEPT ![p] = "levenshtein"]
    /\ pc' = [pc EXCEPT ![p] = "returned"]
    /\ input' = [input EXCEPT ![p] = <<s1, s2>>]
    /\ result' = [result EXCEPT ![p] = LevResult(getLevenshteinDistance(s1, s2))]
    /\ UNCHANGED <<apiKey, anthropic, constructions, parsedMerges, potentialPairs,
                   requests, respKind>>

NextSim ==
    /\ UNCHANGED outerVars
    /\ \/ /\ pc[1] = "idle"
          /\ \E str1, str2 \in SimilarityInputs : SimilarityCall(1, str1, str2)
       \/ /\ pc[1] = "idle"
          /\ \E s1, s2 \in LevenshteinInputs : LevenshteinCall(1, s1, s2)
       \/ /\ pc[1] = "idle"
          /\ \E tasks \in TitledBatches : PairsCall(1, tasks)
       \/ Finish(1)

SpecSim == Init /\ [][NextSim]_vars

----------------------------------------------------------------------------
(* checkAgainstClickUp: the batch against the cached tracker tasks.  The   *)
(* function has no await: a call settles in one step.                      *)

MaxCache == 2       \* most cached tracker tasks given to checkAgainstClickUp

CacheThresholdNum == 75
CacheThresholdDen == 100

CacheTitles == {TitleSend, TitleSent, TitleSends, TitlePlan}
CacheIds == <<"cu1", "cu2", "cu3", "cu4">>

\* existingClickUpTasks: { title, id } entries, the id given by the position
Caches ==
    {[k \in 1..Len(ts) |-> [title |-> ts[k], id |-> CacheIds[k]]] :
        ts \in SeqsUpTo(CacheTitles, MaxCache)}

CacheMatch(i, id, similarity) ==
    [extractedTaskIndex |-> i, clickupTaskId |-> id, similarity |-> similarity]

\* checkAgainstClickUp admitting `similarity >= 0.75`
RECURSIVE CheckLoopInclusive(_, _, _, _, _)
CheckLoopInclusive(extractedTasks, existing, i, k, matches) ==
    IF i >= Len(extractedTasks) THEN matches
    ELSE IF k > Len(existing)
    THEN CheckLoopInclusive(extractedTasks, existing, i + 1, 1, matches)
    ELSE LET similarity ==
                 calculateSimilarity(extractedTasks[i + 1].title, existing[k].title)
         IN CheckLoopInclusive(extractedTasks, existing, i, k + 1,
              IF ~RatGT(<<CacheThresholdNum, CacheThresholdDen>>,
                        similarity[1], similarity[2])
              THEN Append(matches, CacheMatch(i, existing[k].id, similarity))
              ELSE matches)

\* the two loops: task index i (0-based), cache position k (1-based)
RECURSIVE CheckLoop(_, _, _, _, _)
CheckLoop(extractedTasks, existing, i, k, matches) ==
    IF i >= Len(extractedTasks) THEN matches
    ELSE IF k > Len(existing)
    THEN CheckLoop(extractedTasks, existing, i + 1, 1, matches)
    ELSE LET similarity ==
                 calculateSimilarity(extractedTasks[i + 1].title, existing[k].title)
         IN CheckLoop(extractedTasks, existing, i, k + 1,
              IF RatGT(similarity, CacheThresholdNum, CacheThresholdDen)
              THEN Append(matches, CacheMatch(i, existing[k].id, similarity))
              ELSE matches)

CheckResult(matches) == [matches |-> matches]

\* checkAgainstClickUp splicing every matched task out of the caller's batch
CheckCallSuppressing(p, extractedTasks, existingClickUpTasks) ==
    LET matches == CheckLoop(extractedTasks, existingClickUpTasks, 0, 1, <<>>)
        matched == {matches[k].extractedTaskIndex : k \in 1..Len(matches)}
    IN /\ pc[p] = "idle"
       /\ op' = [op EXCEPT ![p] = "check"]
       /\ pc' = [pc EXCEPT ![p] = "returned"]
       /\ input' = [input EXCEPT ![p] =
                      <<FilterUnique(extractedTasks, 0, matched), existingClickUpTasks>>]
       /\ result' = [result EXCEPT ![p] = CheckResult(matches)]
       /\ UNCHANGED <<apiKey, anthropic, constructions, parsedMerges, potentialPairs,
                      requests, respKind>>

\* one call of checkAgainstClickUp(extractedTasks, existingClickUpTasks)
CheckCall(p, extractedTasks, existingClickUpTasks) ==
    /\ pc[p] = "idle"
    /\ op' = [op EXCEPT ![p] = "check"]
    /\ pc' = [pc EXCEPT ![p] = "returned"]
    /\ input' = [input EXCEPT ![p] = <<extractedTasks, existingClickUpTasks>>]
    /\ result' = [result EXCEPT ![p] =
                    CheckResult(CheckLoop(extractedTasks, existingClickUpTasks, 0, 1, <<>>))]
    /\ UNCHANGED <<apiKey, anthropic, constructions, parsedMerges, potentialPairs,
                   requests, respKind>>

\* A call whose task list is null: reading `.length` of null throws a
\* TypeError before anything else happens, and the promise is rejected.
NullListCall(p, operation) ==
    /\ pc[p] = "idle"
    /\ op' = [op EXCEPT ![p] = operation]
    /\ pc' = [pc EXCEPT ![p] = "threw"]
    /\ UNCHANGED <<apiKey, anthropic, constructions, parsedMerges, input, potentialPairs,
                   requests, respKind, result>>

DedupNullCall(p) == NullListCall(p, "dedupNull")

CheckNullCall(p) == NullListCall(p, "checkNull")

MergeNullCall(p) == NullListCall(p, "mergeNull")

\* the three operations on empty and null lists, and the cache check on
\* every batch and cache
NextCheck ==
    /\ UNCHANGED outerVars
    /\ \/ /\ pc[1] = "idle"
          /\ \E tasks \in Batches, cache \in Caches : CheckCall(1, tasks, cache)
       \/ DedupCall(1, <<>>)
       \/ MergeCall(1, <<>>)
       \/ DedupNullCall(1)
       \/ CheckNullCall(1)
       \/ MergeNullCall(1)
       \/ Finish(1)

SpecCheck == Init /\ [][NextCheck]_vars

----------------------------------------------------------------------------
(* Two passes of deduplicateTasks with one oracle: the second pass is      *)
(* given the uniqueTasks of the first.  The oracle either fails in one     *)
(* fixed way or judges by one fixed relation and answers as the prompt     *)
(* asks: every task that has an earlier task of the same action is listed  *)
(* as a duplicate of the first such task.                                  *)

Judges == {"sameTitle", "everything", "nothing"}

OracleBehaviours == FailureKinds \cup Judges

SameAction(judge, a, b) ==
    CASE judge = "sameTitle" -> trim(toLowerCase(a.title)) = trim(toLowerCase(b.title))
      [] judge = "everything" -> TRUE
      [] OTHER -> FALSE

RECURSIVE JudgedDuplicates(_, _, _)
JudgedDuplicates(judge, tasks, j) ==
    IF j > Len(tasks) THEN <<>>
    ELSE LET earlier == {i \in 1..(j - 1) : SameAction(judge, tasks[i], tasks[j])}
         IN (IF earlier = {} THEN <<>>
             ELSE <<[taskIndex |-> j - 1,
                     duplicateOfIndex |-> (CHOOSE i \in earlier :
                                             \A k \in earlier : i <= k) - 1,
                     reason |-> "same action"]>>)
            \o JudgedDuplicates(judge, tasks, j + 1)

\* what the oracle of the given behaviour answers about the batch
OracleAnswer(behaviour, tasks) ==
    IF behaviour \in FailureKinds
    THEN [kind |-> behaviour, dups |-> <<>>]
    ELSE [kind |-> "list", dups |-> JudgedDuplicates(behaviour, tasks, 1)]

InitIdem ==
    /\ InitDedup
    /\ oracle \in OracleBehaviours
    /\ handlerPc = "idle"
    /\ extracted_tasks = <<>>
    /\ flow = <<>>
    /\ clickup_task_cache = <<>>
    /\ cacheRun = [r \in Slots |-> NoCacheRun]
    /\ cacheLog = <<>>
    /\ processedFile = {}
    /\ serverRun = [r \in Slots |-> NoServerRun]
    /\ plannerCreated = [m \in MeetingIds |-> 0]

\* slot 1 runs the first pass, slot 2 the second on the survivors
NextIdem ==
    /\ UNCHANGED outerVars
    /\ \/ /\ pc[2] = "idle"
          /\ \E tasks \in Batches : DedupCall(1, tasks)
       \/ DedupResponse(1, OracleAnswer(oracle, input[1]))
       \/ /\ op[1] = "dedup" /\ pc[1] = "returned"
          /\ DedupCall(2, result[1].uniqueTasks)
       \/ DedupResponse(2, OracleAnswer(oracle, input[2]))
       \/ Finish(2)
       \/ /\ pc[2] = "idle"
          /\ Finish(1)

SpecIdem == InitIdem /\ [][NextIdem]_vars

----------------------------------------------------------------------------
(* The caller's arrays: the caller first holds the batch (and the cache    *)
(* list) and then passes these very arrays to checkAgainstClickUp or to    *)
(* deduplicateTasks, so `input` is the caller's view of them throughout.   *)

\* the caller builds the arguments of its next call of `operation`
CallerHolds(p, operation, args) ==
    /\ pc[p] = "idle"
    /\ op[p] = "none"
    /\ op' = [op EXCEPT ![p] = operation]
    /\ input' = [input EXCEPT ![p] = args]
    /\ UNCHANGED <<apiKey, anthropic, constructions, pc, potentialPairs,
                   requests, respKind, parsedMerges, result>>

NextFrame ==
    /\ UNCHANGED outerVars
    /\ \/ /\ pc[1] = "idle" /\ op[1] = "none"
          /\ \E tasks \in Batches, cache \in Caches :
                CallerHolds(1, "check", <<tasks, cache>>)
       \/ /\ pc[1] = "idle" /\ op[1] = "none"
          /\ \E tasks \in Batches : CallerHolds(1, "dedup", tasks)
       \/ /\ op[1] = "check"
          /\ CheckCall(1, input[1][1], input[1][2])
       \/ /\ op[1] = "dedup"
          /\ DedupCall(1, input[1])
       \/ /\ pc[1] = "awaiting"
          /\ \E resp \in DedupResponses(Len(input[1])) : DedupResponse(1, resp)
       \/ Finish(1)

SpecFrame == Init /\ [][NextFrame]_vars

----------------------------------------------------------------------------
(* cacheClickUpTasks: the caller's replacement of a user's cached tracker  *)
(* tasks, a delete statement and an insert statement with an await before  *)
(* each.  A run is one call; the table executes one statement at a time.   *)

\* the tracker lists the runs have fetched: two versions of a list, and none
Snapshots ==
    {<<>>,
     <<[clickupTaskId |-> "cu1", title |-> TitleSend],
       [clickupTaskId |-> "cu2", title |-> TitlePlan]>>,
     <<[clickupTaskId |-> "cu1", title |-> TitleSend],
       [clickupTaskId |-> "cu3", title |-> TitleSends]>>}

\* cacheRecords: tasks.map(task => ({ user_id, clickup_task_id, title, ... }))
CacheRecords(userId, tasks) ==
    [k \in 1..Len(tasks) |->
        [user_id |-> userId,
         clickup_task_id |-> tasks[k].clickupTaskId,
         title |-> tasks[k].title]]

\* the rows that are not of the user, in order
RECURSIVE RowsOfOthers(_, _)
RowsOfOthers(rows, userId) ==
    IF rows = <<>> THEN <<>>
    ELSE (IF Head(rows).user_id = userId THEN <<>> ELSE <<Head(rows)>>)
         \o RowsOfOthers(Tail(rows), userId)

Statement(r, kind) == [run |-> r, statement |-> kind, userId |-> cacheRun[r].userId]

\* cacheClickUpTasks(userId, tasks) up to the await of the delete
CacheCall(r, userId, tasks) ==
    /\ cacheRun[r].pc = "idle"
    /\ cacheRun' = [cacheRun EXCEPT ![r] =
                       [pc |-> "deleting", userId |-> userId, tasks |-> tasks]]
    /\ UNCHANGED <<clickup_task_cache, cacheLog>>

\* the table executes the delete; the run goes on to the await of the insert
CacheDelete(r) ==
    /\ cacheRun[r].pc = "deleting"
    /\ clickup_task_cache' = RowsOfOthers(clickup_task_cache, cacheRun[r].userId)
    /\ cacheLog' = Append(cacheLog, Statement(r, "delete"))
    /\ cacheRun' = [cacheRun EXCEPT ![r].pc = "inserting"]

\* an insert that replaces the rows of the user in the same statement
CacheInsertReplacing(r) ==
    /\ cacheRun[r].pc = "inserting"
    /\ clickup_task_cache' =
         RowsOfOthers(clickup_task_cache, cacheRun[r].userId)
         \o CacheRecords(cacheRun[r].userId, cacheRun[r].tasks)
    /\ cacheLog' = Append(cacheLog, Statement(r, "insert"))
    /\ cacheRun' = [cacheRun EXCEPT ![r].pc = "done"]

\* the table executes the insert; the run returns
CacheInsert(r) ==
    /\ cacheRun[r].pc = "inserting"
    /\ clickup_task_cache' =
         clickup_task_cache \o CacheRecords(cacheRun[r].userId, cacheRun[r].tasks)
    /\ cacheLog' = Append(cacheLog, Statement(r, "insert"))
    /\ cacheRun' = [cacheRun EXCEPT ![r].pc = "done"]

NextCache ==
    /\ UNCHANGED <<apiKey, anthropic, constructions, op, pc, input, potentialPairs,
                   requests, respKind, parsedMerges, result>>
    /\ UNCHANGED <<oracle, handlerPc, extracted_tasks, flow,
                   processedFile, serverRun, plannerCreated>>
    /\ \E r \in Slots :
           \/ \E userId \in UserIds, tasks \in Snapshots : CacheCall(r, userId, tasks)
           \/ CacheDelete(r)
           \/ CacheInsert(r)

SpecCache == Init /\ [][NextCache]_vars

----------------------------------------------------------------------------
(* The handler of POST /api/meetings/process: extraction and saving of the *)
(* tasks, deduplication, marking of the duplicates, caching of the tracker *)
(* tasks.  One request; flow logs the layers it passes in order.           *)

\* the id the table gives the k-th saved row; the id of a processed meeting
TaskId(k) == <<"extracted_task", k>>
ProcessedMeetingId(n) == <<"processed_meeting", n>>
NoTaskId == <<"null", 0>>

\* saveExtractedTasks over the batch: the first `split` tasks are of the
\* first meeting, the others of the second
SavedRows(tasks, split) ==
    [k \in 1..Len(tasks) |->
        [id |-> TaskId(k),
         processed_meeting_id |-> ProcessedMeetingId(IF k <= split THEN 1 ELSE 2),
         is_duplicate |-> FALSE,
         duplicate_of_task_id |-> NoTaskId]]

\* allExtractedTasks[i].meetingId
MeetingIdAt(i) == extracted_tasks[i + 1].processed_meeting_id

\* the two maps before markDuplicateTasks read `.meetingId` of undefined
MarkTypeError(duplicates) ==
    \E k \in 1..Len(duplicates) :
        \/ duplicates[k].taskIndex \notin 0..(Len(extracted_tasks) - 1)
        \/ /\ duplicates[k].duplicateOfIndex # Null
           /\ duplicates[k].duplicateOfIndex \notin 0..(Len(extracted_tasks) - 1)

\* the argument of markDuplicateTasks
MarkArguments(duplicates) ==
    [k \in 1..Len(duplicates) |->
        [taskId |-> MeetingIdAt(duplicates[k].taskIndex),
         duplicateOfTaskId |->
             IF duplicates[k].duplicateOfIndex # Null
             THEN MeetingIdAt(duplicates[k].duplicateOfIndex)
             ELSE NoTaskId]]

\* update({is_duplicate: true, duplicate_of_task_id}).eq('id', dup.taskId)
UpdateRows(rows, dup) ==
    [k \in 1..Len(rows) |->
        IF rows[k].id = dup.taskId
        THEN [rows[k] EXCEPT !.is_duplicate = TRUE,
                             !.duplicate_of_task_id = dup.duplicateOfTaskId]
        ELSE rows[k]]

RECURSIVE markDuplicateTasks(_, _)
markDuplicateTasks(rows, duplicates) ==
    IF duplicates = <<>> THEN rows
    ELSE markDuplicateTasks(UpdateRows(rows, Head(duplicates)), Tail(duplicates))

\* the loop over the meetings, then `if (allExtractedTasks.length > 1)` and
\* deduplicateTasks up to its first await
HandlerExtract(tasks, split) ==
    /\ handlerPc = "idle"
    /\ pc[1] = "idle"
    /\ extracted_tasks' = SavedRows(tasks, split)
    /\ IF Len(tasks) = 0
       THEN /\ handlerPc' = "responded"
            /\ UNCHANGED <<apiKey, anthropic, constructions, op, pc, input,
                           potentialPairs, requests, respKind, parsedMerges,
                           result, flow>>
       ELSE IF Len(tasks) > 1
       THEN /\ handlerPc' = "deduplicating"
            /\ DedupCall(1, tasks)
            /\ flow' = flow
                        \o (IF ClientThrows("deduplication") THEN <<>> ELSE <<"filter">>)
                        \o (IF pc'[1] = "awaiting" THEN <<"claude">> ELSE <<>>)
       ELSE /\ handlerPc' = "session"
            /\ UNCHANGED <<apiKey, anthropic, constructions, op, pc, input,
                           potentialPairs, requests, respKind, parsedMerges,
                           result, flow>>
    /\ UNCHANGED <<oracle, clickup_task_cache, cacheRun, cacheLog,
                   processedFile, serverRun, plannerCreated>>

\* the response of the oracle reaches deduplicateTasks
HandlerDedupResponse(resp) ==
    /\ handlerPc = "deduplicating"
    /\ DedupResponse(1, resp)
    /\ UNCHANGED outerVars

\* deduplicateTasks has settled: the rest of the try block and its catch
HandlerMark ==
    /\ handlerPc = "deduplicating"
    /\ pc[1] \in {"returned", "threw"}
    /\ handlerPc' = "session"
    /\ IF pc[1] = "returned" /\ Len(result[1].duplicates) > 0
          /\ ~MarkTypeError(result[1].duplicates)
       THEN /\ extracted_tasks' =
                 markDuplicateTasks(extracted_tasks, MarkArguments(result[1].duplicates))
            /\ flow' = Append(flow, "mark")
       ELSE UNCHANGED <<extracted_tasks, flow>>
    /\ UNCHANGED <<apiKey, anthropic, constructions, op, pc, input, potentialPairs,
                   requests, respKind, parsedMerges, result>>
    /\ UNCHANGED <<oracle, clickup_task_cache, cacheRun, cacheLog,
                   processedFile, serverRun, plannerCreated>>

\* getExtractedTasksByMeetings, getTasksFromList, then cacheClickUpTasks up
\* to its delete; a failed fetch goes to the response
HandlerCache(fetched, userClickUpTasks) ==
    /\ handlerPc = "session"
    /\ op' = [op EXCEPT ![1] = "none"]
    /\ pc' = [pc EXCEPT ![1] = "idle"]
    /\ input' = [input EXCEPT ![1] = <<>>]
    /\ potentialPairs' = [potentialPairs EXCEPT ![1] = <<>>]
    /\ requests' = [requests EXCEPT ![1] = 0]
    /\ respKind' = [respKind EXCEPT ![1] = "none"]
    /\ result' = [result EXCEPT ![1] = NoResult]
    /\ IF fetched
       THEN /\ handlerPc' = "caching"
            /\ CacheCall(1, "user1", userClickUpTasks)
            /\ flow' = Append(flow, "cache")
       ELSE /\ handlerPc' = "responded"
            /\ UNCHANGED <<clickup_task_cache, cacheRun, cacheLog, flow>>
    /\ UNCHANGED <<apiKey, anthropic, constructions, parsedMerges>>
    /\ UNCHANGED <<oracle, extracted_tasks, processedFile, serverRun, plannerCreated>>

\* the delete of cacheClickUpTasks
HandlerCacheDelete ==
    /\ handlerPc = "caching"
    /\ CacheDelete(1)
    /\ UNCHANGED <<apiKey, anthropic, constructions, op, pc, input, potentialPairs,
                   requests, respKind, parsedMerges, result>>
    /\ UNCHANGED <<oracle, handlerPc, extracted_tasks, flow,
                   processedFile, serverRun, plannerCreated>>

\* the insert of cacheClickUpTasks, then res.status(200)
HandlerRespond ==
    /\ handlerPc = "caching"
    /\ CacheInsert(1)
    /\ handlerPc' = "responded"
    /\ UNCHANGED <<apiKey, anthropic, constructions, op, pc, input, potentialPairs,
                   requests, respKind, parsedMerges, result>>
    /\ UNCHANGED <<oracle, extracted_tasks, flow,
                   processedFile, serverRun, plannerCreated>>

NextHandler ==
    \/ /\ handlerPc = "idle"
       /\ \E tasks \in Batches : \E split \in 0..Len(tasks) : HandlerExtract(tasks, split)
    \/ /\ handlerPc = "deduplicating" /\ pc[1] = "awaiting"
       /\ \E resp \in DedupResponses(Len(input[1])) : HandlerDedupResponse(resp)
    \/ HandlerMark
    \/ /\ handlerPc = "session"
       /\ \E fetched \in BOOLEAN, userClickUpTasks \in Snapshots :
              HandlerCache(fetched, userClickUpTasks)
    \/ HandlerCacheDelete
    \/ HandlerRespond

SpecHandler == Init /\ [][NextHandler]_vars

----------------------------------------------------------------------------
(* The webhook server: processMeeting runs started by webhook deliveries   *)
(* and manual triggers, not awaited by the endpoints, over the state file  *)
(* of processed meeting ids and the Planner.                               *)

\* processedMeetings.add(meetingId); saveProcessedMeetings(processedMeetings)
MarkProcessed(r) ==
    processedFile' = serverRun[r].processedMeetings \cup {serverRun[r].meetingId}

\* the run ends: return, or rethrow after the finally block
ServerRunEnds(r) == serverRun' = [serverRun EXCEPT ![r] = NoServerRun]

\* a delivery for meetingId starts processMeeting: loadProcessedMeetings,
\* the `has` test, then the await of the meeting summary
ProcessMeetingCall(r, meetingId) ==
    /\ serverRun[r].pc = "idle"
    /\ IF meetingId \in processedFile
       THEN UNCHANGED serverRun
       ELSE serverRun' = [serverRun EXCEPT ![r] =
                [pc |-> "extracting", meetingId |-> meetingId,
                 processedMeetings |-> processedFile]]
    /\ UNCHANGED <<processedFile, plannerCreated>>

\* getMeetingSummaryForExtraction and extractTasks have settled
ExtractSettles(r, outcome) ==
    /\ serverRun[r].pc = "extracting"
    /\ CASE outcome = "throws" ->
              /\ ServerRunEnds(r)
              /\ UNCHANGED processedFile
         [] outcome = "no tasks" ->
              /\ MarkProcessed(r)
              /\ ServerRunEnds(r)
         [] outcome = "tasks" ->
              /\ serverRun' = [serverRun EXCEPT ![r].pc = "creating"]
              /\ UNCHANGED processedFile
    /\ UNCHANGED plannerCreated

\* planner.createTasksInPlanner has settled, then the await of the channel
PlannerSettles(r, created) ==
    /\ serverRun[r].pc = "creating"
    /\ IF created
       THEN /\ plannerCreated' =
                 [plannerCreated EXCEPT ![serverRun[r].meetingId] = Min(@ + 1, MaxCount)]
            /\ serverRun' = [serverRun EXCEPT ![r].pc = "posting"]
       ELSE /\ ServerRunEnds(r)
            /\ UNCHANGED plannerCreated
    /\ UNCHANGED processedFile

\* findChannelByName, createSession and the posting loop have settled
PostingSettles(r, posted) ==
    /\ serverRun[r].pc = "posting"
    /\ IF posted THEN MarkProcessed(r) ELSE UNCHANGED processedFile
    /\ ServerRunEnds(r)
    /\ UNCHANGED plannerCreated

NextServer ==
    /\ UNCHANGED <<apiKey, anthropic, constructions, op, pc, input, potentialPairs,
                   requests, respKind, parsedMerges, result>>
    /\ UNCHANGED <<oracle, handlerPc, extracted_tasks, flow,
                   clickup_task_cache, cacheRun, cacheLog>>
    /\ \E r \in Slots :
           \/ \E meetingId \in MeetingIds : ProcessMeetingCall(r, meetingId)
           \/ \E outcome \in {"throws", "no tasks", "tasks"} : ExtractSettles(r, outcome)
           \/ \E created \in BOOLEAN : PlannerSettles(r, created)
           \/ \E posted \in BOOLEAN : PostingSettles(r, posted)

SpecServer == Init /\ [][NextServer]_vars

----------------------------------------------------------------------------
(* Properties                                                              *)

Settled(p) == pc[p] \in {"returned", "threw"}

DedupReturned(p) == op[p] = "dedup" /\ pc[p] = "returned"

Present(task, tasks) == \E j \in 1..Len(tasks) : tasks[j] = task

ValidIndex(i, tasks) == i \in 0..(Len(tasks) - 1)

\* C1: deduplicateTasks and mergeSimilarTasks always resolve to a result
\* value; no exception ever propagates to the caller, whatever the external
\* layer does (no API key, failed request, any response text).
C1_NoExceptionPropagates ==
    \A p \in Slots : op[p] \in {"dedup", "merge"} => pc[p] # "threw"

\* C2: no task loss: every batch index whose task is absent from uniqueTasks
\* has a DuplicateMatch whose duplicateOfIndex is a valid batch index of a
\* task that is present in uniqueTasks.
C2_NoTaskLoss ==
    \A p \in Slots : DedupReturned(p) =>
        LET tasks == input[p]
            r == result[p]
        IN \A i \in 0..(Len(tasks) - 1) :
              ~Present(tasks[i + 1], r.uniqueTasks) =>
                 \E k \in 1..Len(r.duplicates) :
                    /\ r.duplicates[k].taskIndex = i
                    /\ ValidIndex(r.duplicates[k].duplicateOfIndex, tasks)
                    /\ Present(tasks[r.duplicates[k].duplicateOfIndex + 1],
                               r.uniqueTasks)

\* C3: when the batch has no candidate pair, deduplicateTasks issues no
\* language-model request and returns uniqueTasks equal to the input batch,
\* duplicates empty and totalDuplicates = 0.
C3_NoPairsNoRequest ==
    \A p \in Slots :
        (op[p] = "dedup" /\ Settled(p)
           /\ findPotentialDuplicates(input[p]) = <<>>) =>
        /\ pc[p] = "returned"
        /\ requests[p] = 0
        /\ result[p].uniqueTasks = input[p]
        /\ result[p].duplicates = <<>>
        /\ result[p].totalDuplicates = 0

\* C4: when the oracle's response has no structured payload, fails to parse,
\* or has no duplicates list, deduplicateTasks returns the full input batch
\* as uniqueTasks, no duplicates and totalDuplicates = 0, and does not throw.
C4_MalformedResponseAllUnique ==
    \A p \in Slots :
        (op[p] = "dedup" /\ respKind[p] \in {"nojson", "badjson", "nolist"}) =>
        /\ pc[p] = "returned"
        /\ result[p].uniqueTasks = input[p]
        /\ result[p].duplicates = <<>>
        /\ result[p].totalDuplicates = 0

C4_Witness ==
    \E p \in Slots :
        /\ op[p] = "dedup" /\ pc[p] = "returned" /\ respKind[p] = "badjson"
        /\ Len(input[p]) = MaxTasks
        /\ result[p].uniqueTasks = input[p]

\* C5: an oracle entry whose duplicateOfIndex is null leaves the task at its
\* taskIndex in uniqueTasks (unless another entry marks that task as a
\* duplicate), and is not counted in totalDuplicates.
C5_NullTargetStaysUnique ==
    \A p \in Slots : DedupReturned(p) =>
        LET tasks == input[p]
            r == result[p]
            marked == {k \in 1..Len(r.duplicates) :
                          r.duplicates[k].duplicateOfIndex # Null}
        IN /\ r.totalDuplicates = Cardinality(marked)
           /\ \A k \in 1..Len(r.duplicates) :
                 (/\ r.duplicates[k].duplicateOfIndex = Null
                  /\ ValidIndex(r.duplicates[k].taskIndex, tasks)
                  /\ \A l \in marked :
                        r.duplicates[l].taskIndex # r.duplicates[k].taskIndex)
                 => Present(tasks[r.duplicates[k].taskIndex + 1], r.uniqueTasks)

\* C6: every DuplicateMatch of a result with a non-null duplicateOfIndex has
\* duplicateOfIndex strictly lower than its taskIndex.
C6_CanonicalIsEarlier ==
    \A p \in Slots : DedupReturned(p) =>
        \A k \in 1..Len(result[p].duplicates) :
            LET d == result[p].duplicates[k]
            IN d.duplicateOfIndex # Null => d.duplicateOfIndex < d.taskIndex

\* C7: no transitive chains: the duplicateOfIndex of a DuplicateMatch is
\* never the taskIndex of a DuplicateMatch that marks it as a duplicate of
\* another task.
C7_NoTransitiveChains ==
    \A p \in Slots : DedupReturned(p) =>
        \A k, l \in 1..Len(result[p].duplicates) :
            LET d == result[p].duplicates[k]
                e == result[p].duplicates[l]
            IN (d.duplicateOfIndex # Null /\ e.taskIndex = d.duplicateOfIndex)
               => (e.duplicateOfIndex = Null \/ e.duplicateOfIndex = e.taskIndex)

\* C8: every DuplicateMatch (taskIndex t, duplicateOfIndex d not null) of a
\* result is a pair {d, t} that findPotentialDuplicates admitted for the
\* batch.
C8_OnlyAdmittedPairs ==
    \A p \in Slots : DedupReturned(p) =>
        \A k \in 1..Len(result[p].duplicates) :
            LET d == result[p].duplicates[k]
            IN d.duplicateOfIndex # Null =>
                 \E q \in 1..Len(potentialPairs[p]) :
                    {potentialPairs[p][q][1], potentialPairs[p][q][2]}
                      = {d.duplicateOfIndex, d.taskIndex}

\* C9: an invocation of deduplicateTasks or mergeSimilarTasks issues at most
\* one language-model request, and once that request has settled (failed or
\* answered, well-formed or not) the invocation is over: no second request.
C9_AtMostOneRequest ==
    \A p \in Slots : op[p] \in {"dedup", "merge"} =>
        /\ requests[p] <= 1
        /\ pc[p] = "awaiting" => (requests[p] = 1 /\ respKind[p] = "none")
        /\ respKind[p] # "none" => (requests[p] = 1 /\ Settled(p))

C9_Witness ==
    \E p \in Slots :
        /\ op[p] = "dedup" /\ pc[p] = "returned" /\ respKind[p] = "reject"
        /\ Len(potentialPairs[p]) >= 2
        /\ requests[p] = 1

\* C10 (as amended): the client handle of each module (deduplication.ts,
\* task-extractor.ts) is constructed at most once per process lifetime,
\* under any interleaving of concurrent first uses.
C10_OncePerModule ==
    \A m \in Modules : constructions[m] <= 1

\* C10 (as stated): one language-model client handle per process lifetime.
C10_OncePerProcess ==
    constructions["deduplication"] + constructions["task-extractor"] <= 1

C10_Witness ==
    \E p, q \in Slots :
        /\ p # q
        /\ op[p] = "dedup" /\ pc[p] = "awaiting"
        /\ op[q] = "merge" /\ pc[q] = "awaiting"
        /\ constructions["deduplication"] = 1

\* the score <<n, d>> as a comparison with the threshold num / den
Above(r, num, den) == r[1] * den > num * r[2]

SameScore(r, q) == r[1] * q[2] = q[1] * r[2]

Normalised(str) == trim(toLowerCase(str))

\* C11: findPotentialDuplicates returns exactly the index pairs (i, j),
\* i < j, whose titles have similarity strictly above 0.6, each once; no
\* pair for a batch of at most one task; and exactly the pair (0,1) on
\* Schedule demo call / Schedule a demo call / Unrelated topic entirely.
C11_ExactlyAdmittedPairs ==
    \A p \in Slots : (op[p] = "pairs" /\ pc[p] = "returned") =>
        LET tasks == input[p]
            pairs == potentialPairs[p]
            n == Len(tasks)
        IN /\ \A k, l \in 1..Len(pairs) : pairs[k] = pairs[l] => k = l
           /\ {pairs[k] : k \in 1..Len(pairs)}
                = {ij \in (0..(n - 1)) \X (0..(n - 1)) :
                     /\ ij[1] < ij[2]
                     /\ Above(calculateSimilarity(tasks[ij[1] + 1].title,
                                                  tasks[ij[2] + 1].title), 6, 10)}
           /\ n <= 1 => pairs = <<>>
           /\ tasks = SpecExampleBatch => pairs = <<<<0, 1>>>>

\* a similarity of exactly 0.6 (abcde / abcxy) beside an admitted pair
C11_Witness ==
    \E p \in Slots :
        /\ op[p] = "pairs" /\ pc[p] = "returned"
        /\ Len(input[p]) = 3
        /\ input[p][1].title = TitleAbcde
        /\ input[p][2].title = TitleAbcxy
        /\ input[p][3].title = TitleAbcdx
        /\ SameScore(calculateSimilarity(TitleAbcde, TitleAbcxy), <<6, 10>>)
        /\ potentialPairs[p] = <<<<0, 2>>>>

SimilarityReturned(p) == op[p] = "similarity" /\ pc[p] = "returned"

\* C12: calculateSimilarity is symmetric: the score of (a, b) is the score
\* of (b, a), also when one string contains the other and when the two have
\* the same length.
C12_Symmetric ==
    \A p \in Slots : SimilarityReturned(p) =>
        SameScore(result[p].similarity,
                  calculateSimilarity(input[p][2], input[p][1]))

\* the containment shortcut taken with the longer string first
C12_Witness ==
    \E p \in Slots :
        /\ SimilarityReturned(p)
        /\ input[p] = <<TitleSends, TitleSend>>
        /\ result[p].similarity = <<4, 5>>

\* C13: the score of calculateSimilarity lies in [0, 1] and is 1 exactly
\* when the two strings are identical after lowercasing and trimming.
C13_BoundedAndOneIffEqual ==
    \A p \in Slots : SimilarityReturned(p) =>
        LET r == result[p].similarity
        IN /\ r[2] > 0
           /\ 0 <= r[1] /\ r[1] <= r[2]
           /\ (r[1] = r[2]) <=> (Normalised(input[p][1]) = Normalised(input[p][2]))

\* two different strings that normalise to the same one score 1
C13_Witness ==
    \E p \in Slots :
        /\ SimilarityReturned(p)
        /\ input[p][1] # input[p][2]
        /\ Normalised(input[p][1]) = Normalised(input[p][2])
        /\ Len(Normalised(input[p][1])) > 0
        /\ result[p].similarity = <<1, 1>>

CheckReturned(p) == op[p] = "check" /\ pc[p] = "returned"

\* C14: checkAgainstClickUp returns exactly one CacheMatch for every batch
\* index i and cache entry e whose titles have similarity strictly above
\* 0.75, and none for any other pair; the match carries i, the id of e and
\* the similarity of the two titles.
C14_ExactlyCacheMatches ==
    \A p \in Slots : CheckReturned(p) =>
        LET tasks == input[p][1]
            cache == input[p][2]
            matches == result[p].matches
        IN /\ \A k, l \in 1..Len(matches) : matches[k] = matches[l] => k = l
           /\ {matches[k] : k \in 1..Len(matches)}
                = {[extractedTaskIndex |-> i - 1,
                    clickupTaskId |-> cache[e].id,
                    similarity |-> calculateSimilarity(tasks[i].title, cache[e].title)] :
                     <<i, e>> \in {ie \in (1..Len(tasks)) \X (1..Len(cache)) :
                        Above(calculateSimilarity(tasks[ie[1]].title,
                                                  cache[ie[2]].title), 75, 100)}}

\* one task matching two cache entries (Send: 1, Sends: 4/5) and a third
\* entry at exactly 0.75 (Sent) left out
C14_Witness ==
    \E p \in Slots :
        /\ CheckReturned(p)
        /\ Len(input[p][1]) = 1
        /\ Len(input[p][2]) = 2
        /\ input[p][2][1].title = TitleSends
        /\ input[p][2][2].title = TitleSend
        /\ Len(result[p].matches) = 2
        /\ SameScore(calculateSimilarity(TitleSend, TitleSent), <<75, 100>>)

\* C19: an empty or null task list given to deduplicateTasks,
\* checkAgainstClickUp or mergeSimilarTasks gives an empty result (no
\* duplicates, no matches, no tasks), no error and no external call.
C19_EmptyOrNullIsEmptyResult ==
    \A p \in Slots :
        /\ op[p] \in {"dedupNull", "checkNull", "mergeNull"} => pc[p] # "threw"
        /\ (op[p] = "dedup" /\ Settled(p) /\ input[p] = <<>>) =>
              /\ pc[p] = "returned"
              /\ result[p] = AllUnique(<<>>)
              /\ requests[p] = 0
        /\ (op[p] = "merge" /\ Settled(p) /\ input[p] = <<>>) =>
              /\ pc[p] = "returned"
              /\ result[p] = NoTasks
              /\ requests[p] = 0
        /\ (op[p] = "check" /\ Settled(p) /\ input[p][1] = <<>>) =>
              /\ pc[p] = "returned"
              /\ result[p].matches = <<>>
              /\ requests[p] = 0

MergeReturned(p) == op[p] = "merge" /\ pc[p] = "returned"

\* index i is the primaryIndex or one of the mergeIndices of the group
InGroup(i, group) ==
    \/ group.primaryIndex = i
    \/ \E k \in 1..Len(group.mergeIndices) : group.mergeIndices[k] = i

\* the result of the invocation in slot p applies the groups at the
\* positions `applied` of the response and passes every other task through
GroupsApplied(p, applied) ==
    LET all == input[p]
        tasks == result[p].tasks
        groups == parsedMerges[p]
    IN \A i \in 0..(Len(all) - 1) :
          IF \E k \in applied : InGroup(i, groups[k])
          THEN /\ ~Present(all[i + 1], tasks)
               /\ \A k \in applied :
                     InGroup(i, groups[k]) => Present(groups[k].mergedTask, tasks)
          ELSE Present(all[i + 1], tasks)

\* C15 (as amended): every flattened index that appears in a returned group
\* which carries a mergedTask is absent from the final list and represented
\* by that group's mergedTask; every other index, those named only by groups
\* without a mergedTask included, is in the final list with its title,
\* description, priority and dueDate unchanged.
C15_GroupsWithMergedTaskApplied ==
    \A p \in Slots : MergeReturned(p) =>
        GroupsApplied(p, {k \in 1..Len(parsedMerges[p]) :
                            parsedMerges[p][k].mergedTask # NoMergedTask})

\* tasks 0 and 1 of three consolidated into one, task 2 passed through
C15_Witness ==
    \E p \in Slots :
        /\ MergeReturned(p)
        /\ Len(input[p]) = 3
        /\ Len(parsedMerges[p]) = 1
        /\ parsedMerges[p][1].primaryIndex = 0
        /\ parsedMerges[p][1].mergeIndices = <<1>>
        /\ result[p].tasks = <<ConsolidatedTask, input[p][3]>>

\* C15 as stated: every flattened index that appears in any returned group
\* is absent from the final list and represented by the group's mergedTask;
\* every index absent from all groups is in the final list unchanged.
C15_AllGroupsApplied ==
    \A p \in Slots : MergeReturned(p) =>
        GroupsApplied(p, 1..Len(parsedMerges[p]))

\* C16: when the oracle call of mergeSimilarTasks fails in any way (no
\* client, rejected request, non-text or payload-free response, unparseable
\* or schema-violating payload), the result is the full flattened list.
C16_MergeFailureGivesFlattenedList ==
    \A p \in Slots :
        (/\ op[p] = "merge"
         /\ \/ pc[p] = "threw"
            \/ pc[p] = "returned" /\ respKind[p] \in MergeFailureKinds) =>
            /\ pc[p] = "returned"
            /\ result[p].tasks = input[p]

\* C17: when the flattened list has no candidate pair (zero or one task
\* included), mergeSimilarTasks issues no request and returns the flattened
\* list unchanged, in batch order then in-batch order.
C17_NoPairsNoMergeRequest ==
    \A p \in Slots :
        (op[p] = "merge" /\ findPotentialDuplicates(input[p]) = <<>>) =>
            /\ pc[p] = "returned"
            /\ requests[p] = 0
            /\ respKind[p] = "none"
            /\ result[p].tasks = input[p]
            /\ \A k \in 1..Len(result[p].tasks) :
                  result[p].tasks[k].description = Descriptions[k]

\* two tasks without a candidate pair, returned although no client can be
\* built
C17_Witness ==
    \E p \in Slots :
        /\ MergeReturned(p)
        /\ ~apiKey
        /\ Len(input[p]) = 2
        /\ findPotentialDuplicates(input[p]) = <<>>
        /\ result[p].tasks = input[p]

WellFormedTask(task) ==
    /\ task.title # <<>>
    /\ task.description # Undefined
    /\ task.priority \in Priorities
    /\ task.dueDate # Undefined

\* C18: every element of the list returned by mergeSimilarTasks is a
\* well-formed Task: a title, a description, a priority among urgent, high,
\* normal, low, and a dueDate that is a date or null.
C18_MergeResultWellFormed ==
    \A p \in Slots : MergeReturned(p) =>
        \A k \in 1..Len(result[p].tasks) : WellFormedTask(result[p].tasks[k])

\* C20: for a batch of two tasks with titles identical after normalisation
\* and different descriptions, (0,1) is a candidate pair, and when the
\* oracle confirms it the result marks index 1 as a duplicate of index 0,
\* never index 0 as a duplicate of index 1, every match with a reason.
C20_SecondIsDuplicateOfFirst ==
    \A p \in Slots :
        (/\ op[p] = "dedup" /\ pc[p] # "idle"
         /\ Len(input[p]) = 2
         /\ Normalised(input[p][1].title) = Normalised(input[p][2].title)
         /\ input[p][1].description # input[p][2].description) =>
            LET d == result[p].duplicates
                Marks(a, b) == \E k \in 1..Len(d) :
                                  d[k].taskIndex = a /\ d[k].duplicateOfIndex = b
            IN /\ findPotentialDuplicates(input[p]) = <<<<0, 1>>>>
               /\ (Marks(1, 0) \/ Marks(0, 1)) => (Marks(1, 0) /\ ~Marks(0, 1))
               /\ \A k \in 1..Len(d) : d[k].reason # ""

\* the unit-cost edit distance by its defining recurrence
RECURSIVE EditDistance(_, _)
EditDistance(a, b) ==
    IF a = <<>> THEN Len(b)
    ELSE IF b = <<>> THEN Len(a)
    ELSE Min(Min(EditDistance(Tail(a), b) + 1, EditDistance(a, Tail(b)) + 1),
             EditDistance(Tail(a), Tail(b)) + (IF Head(a) = Head(b) THEN 0 ELSE 1))

LevenshteinReturned(p) == op[p] = "levenshtein" /\ pc[p] = "returned"

\* one normalised string contains the other and the length ratio is above 0.7
ShortcutTaken(a, b) ==
    /\ Normalised(a) # Normalised(b)
    /\ includes(Normalised(a), Normalised(b)) \/ includes(Normalised(b), Normalised(a))
    /\ 10 * Min(Len(Normalised(a)), Len(Normalised(b)))
         > 7 * Max(Len(Normalised(a)), Len(Normalised(b)))

\* C27: getLevenshteinDistance(s1, s2) is the unit-cost edit distance of s1
\* and s2, empty strings and different lengths included, and the fallback
\* of calculateSimilarity is 1 - distance / max(len(a), len(b)).
C27_LevenshteinIsEditDistance ==
    \A p \in Slots : LevenshteinReturned(p) =>
        LET a == input[p][1]
            b == input[p][2]
            hi == Max(Len(Normalised(a)), Len(Normalised(b)))
        IN /\ result[p].distance = EditDistance(a, b)
           /\ (Normalised(a) # Normalised(b) /\ ~ShortcutTaken(a, b)) =>
                 calculateSimilarity(a, b)
                   = <<hi - EditDistance(Normalised(a), Normalised(b)), hi>>

\* a substitution, an insertion and the empty string: abcde / abcxy at
\* distance 2 needs the substitution step
C27_Witness ==
    \E p \in Slots :
        /\ LevenshteinReturned(p)
        /\ input[p] = <<TitleAbcde, TitleAbcxy>>
        /\ result[p].distance = 2

\* calculateSimilarity with the containment step removed
calculateSimilarityNoShortcut(str1, str2) ==
    LET s1 == Normalised(str1)
        s2 == Normalised(str2)
        longer == IF Len(s1) > Len(s2) THEN s1 ELSE s2
        shorter == IF Len(s1) > Len(s2) THEN s2 ELSE s1
    IN IF s1 = s2 THEN <<1, 1>>
       ELSE IF Len(longer) = 0 THEN <<1, 1>>
       ELSE <<Len(longer) - getLevenshteinDistance(shorter, longer), Len(longer)>>

\* C28: the containment shortcut never changes the outcome: the score of
\* calculateSimilarity is the score of the same function without the
\* containment step, for all strings.
C28_ShortcutIsEquivalent ==
    \A p \in Slots : SimilarityReturned(p) =>
        SameScore(result[p].similarity,
                  calculateSimilarityNoShortcut(input[p][1], input[p][2]))

\* the shortcut taken: Send inside Sends, ratio 4/5
C28_Witness ==
    \E p \in Slots :
        /\ SimilarityReturned(p)
        /\ input[p] = <<TitleSend, TitleSends>>
        /\ ShortcutTaken(input[p][1], input[p][2])
        /\ result[p].similarity = <<4, 5>>

\* C29: count accounting: in every result of deduplicateTasks,
\* uniqueTasks.length + totalDuplicates is the number of input tasks,
\* whatever the oracle answered.
C29_CountAccounting ==
    \A p \in Slots : DedupReturned(p) =>
        Len(result[p].uniqueTasks) + result[p].totalDuplicates = Len(input[p])

\* C30: the list returned by mergeSimilarTasks is never longer than the
\* flattened input: every consolidated task replaces at least one flattened
\* task, and no flattened index is in two applied groups.
C30_MergeNeverLonger ==
    \A p \in Slots : MergeReturned(p) =>
        LET groups == parsedMerges[p]
            applied == {k \in 1..Len(groups) : groups[k].mergedTask # NoMergedTask}
        IN /\ Len(result[p].tasks) <= Len(input[p])
           /\ \A k \in applied :
                 \E i \in 0..(Len(input[p]) - 1) : InGroup(i, groups[k])
           /\ \A k, l \in applied : \A i \in 0..(Len(input[p]) - 1) :
                 (InGroup(i, groups[k]) /\ InGroup(i, groups[l])) => k = l

\* C21: idempotence: when the uniqueTasks of one deduplicateTasks run are
\* given to a second run under the same oracle behaviour, the second run
\* reports totalDuplicates = 0 and returns them unchanged (a consistent
\* oracle leaves no further duplicates among the survivors of the first).
C21_SecondPassFindsNothing ==
    (/\ op[1] = "dedup" /\ pc[1] = "returned"
     /\ op[2] = "dedup" /\ pc[2] = "returned"
     /\ input[2] = result[1].uniqueTasks) =>
        /\ result[2].totalDuplicates = 0
        /\ result[2].duplicates = <<>>
        /\ result[2].uniqueTasks = input[2]

\* the first pass removed two of three tasks, the second pass has run
C21_Witness ==
    /\ op[1] = "dedup" /\ pc[1] = "returned"
    /\ op[2] = "dedup" /\ pc[2] = "returned"
    /\ Len(input[1]) = 3
    /\ result[1].totalDuplicates = 2
    /\ input[2] = result[1].uniqueTasks
    /\ Len(input[2]) = 1

\* C22: checkAgainstClickUp never removes, reorders or modifies a task of
\* the batch or an entry of the cache list, and deduplicateTasks leaves its
\* input batch unchanged: no step of either operation changes the arrays
\* the caller passed.
C22_InputsUnchanged ==
    [][\A p \in Slots :
         (op[p] \in {"check", "dedup"} /\ op'[p] = op[p]) => input'[p] = input[p]]_vars

\* a call that found matches for a batch of three, whose arrays are as the
\* caller built them
C22_Witness ==
    \E p \in Slots :
        /\ CheckReturned(p)
        /\ result[p].matches # <<>>
        /\ input[p][1] \in Batches
        /\ Len(input[p][1]) = 3
        /\ input[p][2] \in Caches

\* position of the last delete of the user's rows in cacheLog, 0 if none
LastDelete(userId) ==
    LET deletes == {k \in 1..Len(cacheLog) :
                      cacheLog[k].statement = "delete" /\ cacheLog[k].userId = userId}
    IN IF deletes = {} THEN 0 ELSE CHOOSE k \in deletes : \A l \in deletes : l <= k

\* the rows the inserts for the user at the log positions after k put in
RECURSIVE InsertedAfter(_, _)
InsertedAfter(userId, k) ==
    IF k >= Len(cacheLog) THEN <<>>
    ELSE (IF cacheLog[k + 1].statement = "insert" /\ cacheLog[k + 1].userId = userId
          THEN CacheRecords(userId, cacheRun[cacheLog[k + 1].run].tasks)
          ELSE <<>>)
         \o InsertedAfter(userId, k + 1)

\* the rows of the user in the table, in order
RECURSIVE RowsOfUser(_, _)
RowsOfUser(rows, userId) ==
    IF rows = <<>> THEN <<>>
    ELSE (IF Head(rows).user_id = userId THEN <<Head(rows)>> ELSE <<>>)
         \o RowsOfUser(Tail(rows), userId)

LayerBefore(layer, k) == \E j \in 1..k : flow[j] = layer

\* C24: in the meeting-processing flow the duplicates are marked in the
\* database only after the tasks have passed the string filter, then the
\* Claude comparison, then the comparison against the ClickUp cache.
C24_MarkAfterCacheComparison ==
    \A k \in 1..Len(flow) :
        flow[k] = "mark" =>
            \E a, b, c \in 1..k :
                /\ a < b /\ b < c
                /\ flow[a] = "filter" /\ flow[b] = "claude" /\ flow[c] = "compare"

\* every match of the result names two positions of the batch
MatchesInRange ==
    \A k \in 1..Len(result[1].duplicates) :
        /\ ValidIndex(result[1].duplicates[k].taskIndex, input[1])
        /\ ValidIndex(result[1].duplicates[k].duplicateOfIndex, input[1])

\* C25: after the handler has run deduplication, the record of batch
\* position t is marked is_duplicate with duplicate_of_task_id the record of
\* position d for every DuplicateMatch (t, d), and no other record is marked.
C25_MatchesMarked ==
    (handlerPc = "session" /\ DedupReturned(1) /\ MatchesInRange) =>
        /\ \A k \in 1..Len(result[1].duplicates) :
              LET t == result[1].duplicates[k].taskIndex
                  d == result[1].duplicates[k].duplicateOfIndex
              IN /\ extracted_tasks[t + 1].is_duplicate
                 /\ extracted_tasks[t + 1].duplicate_of_task_id
                        = extracted_tasks[d + 1].id
        /\ \A i \in 1..Len(extracted_tasks) :
              extracted_tasks[i].is_duplicate =>
                  \E k \in 1..Len(result[1].duplicates) :
                      result[1].duplicates[k].taskIndex = i - 1

\* C26: the webhook server creates the Planner tasks of a meeting at most
\* once, whatever the sequence or interleaving of deliveries and triggers
\* with the same meeting id, in-progress and failed earlier runs included.
C26_PlannerAtMostOnce ==
    \A meetingId \in MeetingIds : plannerCreated[meetingId] <= 1

====
